---- MODULE Spec2Model ----
(***************************************************************************)
(* Model of the decision engine of intel-lpmd:                             *)
(*   src/src/lpmd_util.c            utilization monitor, simple classifier,*)
(*                                  hysteresis filter, config-state matcher*)
(*   src/src/wlt_proxy/spike_mgmt.c spike burst detector                   *)
(* Percentages are basis points (0..10000); -1 is "unavailable".           *)
(* Times of lpmd_util.c are milliseconds, times of spike_mgmt.c seconds.   *)
(***************************************************************************)
EXTENDS Integers, Sequences, FiniteSets, TLC

VARIABLES
    \* ---- configuration and environment (lpmd.h getters, lpmd_config_t)
    cfg,               \* global toggles read through get_util_*(), has_util_monitor()
    lpm,               \* what in_lpm() returns
    now,               \* CLOCK_MONOTONIC, in ms
    inited,            \* util_init() has run
    \* ---- lpmd_util.c statics
    config_states,     \* lpmd_config->config_states[0..config_state_count-1], 1-based here
    current_state,     \* index into config_states, 0 = NULL
    interval,          \* static int interval of enter_state
    busy_sys,
    busy_cpu,
    busy_gfx,
    sys_stat,
    first_run,
    use_config_state,
    initialized,       \* static int initialized of periodic_util_update
    util_in_hyst,
    util_out_hyst,
    util_in_min,
    util_out_min,
    avg_in,
    avg_out,
    tp_last_in,
    tp_last_out,
    \* ---- what the last call did (arguments, return values, actuator calls)
    op,                \* name of the last operation
    wlt_arg,           \* wlt_index argument of the last periodic_util_update
    ret,               \* return value of the last periodic_util_update
    acts,              \* actuator calls made by the last operation, in order
    sel,               \* index of the state process_next_config_state matched, 0 = none
    proceed,           \* return value of util_should_proceed in the last tick, -1 = not called
    pre,               \* what the last tick started from
    \* ---- spike_mgmt.c statics
    burst_count,
    total_spike_time,
    spike_sec_prev,
    spike_rate_total,
    spike_rate_samples,
    burst_rate_per_min,
    spike_burst_flag,
    bc_reset_min,      \* float in the source; it only ever holds whole numbers
    once_flag,
    \* ---- environment of spike_mgmt.c
    state_demote,      \* extern int state_demote, as the last call saw it
    now_sec,           \* tv_sec of CLOCK_MONOTONIC
    \* ---- what the detector did since the rising edge of the current burst
    spike_op,          \* the last detector call and the branch it took
    ncalls,            \* detector calls since the initial state
    burst_spikes,      \* add_spike_time calls since the flag was last clear
    burst_incs,        \* burst_count++ executions since the flag was last clear
    retune,            \* avg and bc_reset_min as the last falling edge found them
    \* ---- strikeout_once (spike_mgmt.c)
    strike_count,      \* static int strike_count
    strike_calls,      \* strikeout_once calls so far
    strike_n,          \* argument of the last strikeout_once call
    strike_uniform,    \* every strikeout_once call so far passed the same argument
    strike_ret,        \* return value of the last strikeout_once call
    \* ---- counter snapshot store (lpmd_util.c)
    proc_stat_prev,    \* slots 0..get_max_online_cpu(), the last one is the system line
    proc_stat_cur,
    \* ---- GPU residency tracker (lpmd_util.c)
    gfx_sysfs_available, \* static of parse_gfx_util_sysfs
    ts_prev,           \* static of parse_gfx_util_sysfs, in ms; 0 is the zeroed timespec
    gfx_rc6_prev,      \* statics of get_gfx_util_sysfs
    sam_mc6_prev,
    tsc_prev,          \* statics of parse_gfx_util_msr
    val_prev,
    gfx_now,           \* the monotonic clock, in ms
    gfx_calls,         \* parse_gfx_util calls so far
    gfx_op,            \* "start", or the source the last parse_gfx_util ended in
    gfx_elapsed,       \* divisor of the last utilization quotient, -1 if none was formed
    gfx_fault          \* the last parse_gfx_util divided by zero

utilVars == <<cfg, lpm, now, inited, config_states, current_state, interval,
              busy_sys, busy_cpu, busy_gfx, sys_stat, first_run, use_config_state,
              initialized, util_in_hyst, util_out_hyst, util_in_min, util_out_min,
              avg_in, avg_out, tp_last_in, tp_last_out,
              op, wlt_arg, ret, acts, sel, proceed, pre>>

spikeVars == <<burst_count, total_spike_time, spike_sec_prev, spike_rate_total,
               spike_rate_samples, burst_rate_per_min, spike_burst_flag,
               bc_reset_min, once_flag, state_demote, now_sec, spike_op, ncalls,
               burst_spikes, burst_incs, retune>>

strikeVars == <<strike_count, strike_calls, strike_n, strike_uniform, strike_ret>>

statVars == <<proc_stat_prev, proc_stat_cur>>

gfxVars == <<gfx_sysfs_available, ts_prev, gfx_rc6_prev, sam_mc6_prev, tsc_prev,
             val_prev, gfx_now, gfx_calls, gfx_op, gfx_elapsed, gfx_fault>>

restVars == <<strikeVars, statVars, gfxVars>>

vars == <<utilVars, spikeVars, restVars>>

(***************************************************************************)
(* C arithmetic                                                            *)
(***************************************************************************)
\* C integer division truncates toward zero.
CDiv(a, b) ==
    IF (a >= 0 /\ b > 0) \/ (a <= 0 /\ b < 0)
    THEN a \div b
    ELSE -((-a) \div b)

\* The averages and elapsed times of the hysteresis filter are unsigned long
\* (64 bit).  Every value the model reaches is below 2^31, far from the wrap, so
\* they are plain naturals here.

(***************************************************************************)
(* Constants of lpmd_util.c                                                *)
(***************************************************************************)
DECAY_PERIOD == 5

DEFAULT_POLL_RATE_MS == 1000

SYS_IDLE == "SYS_IDLE"

SYS_NORMAL == "SYS_NORMAL"

SYS_OVERLOAD == "SYS_OVERLOAD"

SYS_UNKNOWN == "SYS_UNKNOWN"

SETTING_IGNORE == "SETTING_IGNORE"

(***************************************************************************)
(* Counter snapshot store (lpmd_util.c 66-76, 249-381)                     *)
(***************************************************************************)
\* get_max_online_cpu() of lpmd_cpu.c: the number of logical CPUs, whose ids are
\* 0..get_max_online_cpu-1; slot get_max_online_cpu holds the system line.
get_max_online_cpu == 2

\* A slot keeps valid and the counters of one /proc/stat line.  The counters
\* that calculate_busypct adds to busy (all but idle and iowait) are kept as
\* one sum, busy, and idle + iowait as another, idle: the function only adds
\* differences modulo 2^64, so it cannot tell the grouping.
NoSlot == [valid |-> 0, busy |-> 0, idle |-> 0]

\* The low 32 bits, as an int, of floor((2^64 - x) / t) for 0 < x < 2^16 and
\* 0 < t < 2^15: long division in base 2^16 of the digits of 2^64 - x.
U64DivToInt(x, t) ==
    LET B  == 65536
        r3 == (B - 1) % t
        n2 == r3 * B + (B - 1)
        r2 == n2 % t
        n1 == r2 * B + (B - 1)
        q1 == n1 \div t
        r1 == n1 % t
        n0 == r1 * B + (B - x)
        q0 == n0 \div t
    IN  IF q1 >= 32768 THEN (q1 - B) * B + q0 ELSE q1 * B + q0

\* calculate_busypct(cur, prev).  db and dt are the sums of the differences as
\* integers; the unsigned long long busy and total of the source are db and dt
\* modulo 2^64, i.e. 2^64 + db and 2^64 + dt when negative, and busy * 10000
\* wraps to 2^64 - 10000 * (-db).  The quotient is converted to int.
calculate_busypct(cur, prev) ==
    LET db == cur.busy - prev.busy
        dt == db + (cur.idle - prev.idle)
    IN  IF dt = 0 THEN 0
        ELSE IF dt > 0
             THEN IF db >= 0 THEN (db * 10000) \div dt
                  ELSE U64DivToInt(10000 * (-db), dt)
        ELSE IF db >= 0 THEN 0
             ELSE IF 10000 * (-db) <= -dt THEN 1 ELSE 0

\* The loop over the slots in parse_proc_stat (370-378): the largest
\* calculate_busypct of the valid slots from..to, starting from 0.
RECURSIVE busy_cpu_scan(_, _, _, _)
busy_cpu_scan(cur, prev, i, last) ==
    IF i > last THEN 0
    ELSE LET rest == busy_cpu_scan(cur, prev, i + 1, last)
             val  == calculate_busypct(cur[i], prev[i])
         IN  IF cur[i].valid = 0 THEN rest
             ELSE IF rest < val THEN val ELSE rest

\* parse_proc_stat() reading a /proc/stat whose lines are file: file[i] is the
\* slot written for line "cpu<i>", file[get_max_online_cpu] the one for the
\* line "cpu", NoSlot for a line that is not there.  The result is the new
\* [prev, cur, busy_sys, busy_cpu].
parse_proc_stat(file, prev, cur) ==
    [prev |-> cur,
     cur |-> file,
     busy_sys |-> calculate_busypct(file[get_max_online_cpu], cur[get_max_online_cpu]),
     busy_cpu |-> busy_cpu_scan(file, cur, 1, get_max_online_cpu)]

(***************************************************************************)
(* GPU residency tracker (lpmd_util.c 118-247)                             *)
(* The unsigned 64-bit counters are held as integers; the all-ones value   *)
(* is held as -1, which it is congruent to.                                *)
(***************************************************************************)
ULLONG_MAX == -1

UINT64_MAX == ULLONG_MAX

\* get_gfx_util_sysfs(time_ms) with gfx_rc6 and sam_mc6 as the two reads left
\* them.  fault says that a quotient by time_ms = 0 is evaluated (151, 158);
\* ret is then not defined by the code and reported here as -1.
get_gfx_util_sysfs(time_ms, gfx_rc6, sam_mc6, rc6_prev, mc6_prev) ==
    IF gfx_rc6 = ULLONG_MAX /\ sam_mc6 = ULLONG_MAX
    THEN [ret |-> -1, rc6_prev |-> rc6_prev, mc6_prev |-> mc6_prev,
          fault |-> FALSE, divides |-> FALSE]
    ELSE LET gfx_div == gfx_rc6 # ULLONG_MAX /\ rc6_prev # ULLONG_MAX
             sam_div == sam_mc6 # ULLONG_MAX /\ mc6_prev # ULLONG_MAX
             fault == time_ms = 0 /\ (gfx_div \/ sam_div)
             gfx_util == IF gfx_div /\ ~fault
                         THEN 10000 - CDiv((gfx_rc6 - rc6_prev) * 10000, time_ms)
                         ELSE -1
             sam_util == IF sam_div /\ ~fault
                         THEN 10000 - CDiv((sam_mc6 - mc6_prev) * 10000, time_ms)
                         ELSE -1
         IN  [ret |-> IF gfx_util > sam_util THEN gfx_util ELSE sam_util,
              rc6_prev |-> IF gfx_rc6 # ULLONG_MAX THEN gfx_rc6 ELSE rc6_prev,
              mc6_prev |-> IF sam_mc6 # ULLONG_MAX THEN sam_mc6 ELSE mc6_prev,
              fault |-> fault, divides |-> gfx_div \/ sam_div]

\* parse_gfx_util_sysfs(): ts_cur is the clock reading, probe_ok the outcome of
\* probe_gfx_util_sysfs() where it is called.  ret = 1 sends parse_gfx_util to
\* the MSR.
parse_gfx_util_sysfs(ts_cur, probe_ok, gfx_rc6, sam_mc6, avail, ts, rc6_prev, mc6_prev) ==
    LET keep == [ret |-> 1, busy_gfx |-> -1, avail |-> avail, ts_prev |-> ts,
                 rc6_prev |-> rc6_prev, mc6_prev |-> mc6_prev,
                 fault |-> FALSE, elapsed |-> -1]
    IN  IF avail = 0 THEN keep
        ELSE IF ts = 0
        THEN IF ~probe_ok
             THEN [keep EXCEPT !.avail = 0]
             ELSE [keep EXCEPT !.ret = 0, !.ts_prev = ts_cur]
        ELSE LET g == get_gfx_util_sysfs(ts_cur - ts, gfx_rc6, sam_mc6,
                                         rc6_prev, mc6_prev)
             IN  [ret |-> 0, busy_gfx |-> g.ret, avail |-> avail,
                  ts_prev |-> ts_cur, rc6_prev |-> g.rc6_prev,
                  mc6_prev |-> g.mc6_prev, fault |-> g.fault,
                  elapsed |-> IF g.divides THEN ts_cur - ts ELSE -1]

\* parse_gfx_util_msr(): tsc and val are the two read_msr() results.
parse_gfx_util_msr(tsc, val, tprev, vprev) ==
    IF tsc = UINT64_MAX \/ val = UINT64_MAX
    THEN [ret |-> 1, busy_gfx |-> -1, tsc_prev |-> tprev, val_prev |-> vprev,
          fault |-> FALSE, elapsed |-> -1]
    ELSE IF tprev = 0 \/ vprev = 0
    THEN [ret |-> 0, busy_gfx |-> -1, tsc_prev |-> tsc, val_prev |-> val,
          fault |-> FALSE, elapsed |-> -1]
    ELSE [ret |-> 0,
          busy_gfx |-> IF tsc = tprev THEN -1
                       ELSE CDiv((val - vprev) * 10000, tsc - tprev),
          tsc_prev |-> tsc, val_prev |-> val,
          fault |-> tsc = tprev, elapsed |-> tsc - tprev]

(***************************************************************************)
(* Simple classifier (lpmd_util.c 387-491)                                 *)
(***************************************************************************)
get_sys_stat_nocold(frun, inlpm, bsys, bcpu, entry_thres, exit_thres) ==
    IF ~inlpm /\ bsys <= entry_thres * 100 THEN SYS_IDLE
    ELSE IF inlpm /\ bcpu > exit_thres * 100 THEN SYS_OVERLOAD
    ELSE SYS_NORMAL

get_sys_stat(frun, inlpm, bsys, bcpu, entry_thres, exit_thres) ==
    IF frun = 1 THEN SYS_NORMAL
    ELSE IF ~inlpm /\ bsys <= entry_thres * 100 THEN SYS_IDLE
    ELSE IF inlpm /\ bcpu > exit_thres * 100 THEN SYS_OVERLOAD
    ELSE SYS_NORMAL

\* util_should_proceed works on the hysteresis state h = [avg_in, avg_out]; the
\* result carries the return value r and the new averages.  cur_in and cur_out
\* are the elapsed times (ms) since tp_last_in and tp_last_out.
idle_candidate_nopenalty(h, in_hyst, out_min, cur_out) ==
    LET new_out == ((h.avg_out * (DECAY_PERIOD - 1)) \div DECAY_PERIOD
                         + cur_out \div DECAY_PERIOD)
    IN  IF h.avg_in >= in_hyst /\ cur_out >= out_min
        THEN [r |-> 1, avg_in |-> h.avg_in, avg_out |-> new_out]
        ELSE [r |-> 0, avg_in |-> h.avg_in, avg_out |-> new_out]

idle_candidate(h, in_hyst, out_min, cur_out) ==
    LET new_out == ((h.avg_out * (DECAY_PERIOD - 1)) \div DECAY_PERIOD
                         + cur_out \div DECAY_PERIOD)
    IN  IF h.avg_in >= in_hyst /\ cur_out >= out_min
        THEN [r |-> 1, avg_in |-> h.avg_in, avg_out |-> new_out]
        ELSE [r |-> 0,
              avg_in |-> (h.avg_in * (DECAY_PERIOD + 1)) \div DECAY_PERIOD,
              avg_out |-> new_out]

overload_candidate(h, out_hyst, in_min, cur_in) ==
    LET new_in == ((h.avg_in * (DECAY_PERIOD - 1)) \div DECAY_PERIOD
                        + cur_in \div DECAY_PERIOD)
    IN  IF h.avg_out >= out_hyst /\ cur_in >= in_min
        THEN [r |-> 1, avg_in |-> new_in, avg_out |-> h.avg_out]
        ELSE [r |-> 0,
              avg_in |-> new_in,
              avg_out |-> (h.avg_out * (DECAY_PERIOD + 1)) \div DECAY_PERIOD]

util_should_proceed_other1(status, h, in_hyst, out_hyst, in_min, out_min, cur_in, cur_out) ==
    IF out_hyst = 0 /\ in_hyst = 0
    THEN [r |-> 1, avg_in |-> h.avg_in, avg_out |-> h.avg_out]
    ELSE IF status = SYS_IDLE THEN idle_candidate(h, in_hyst, out_min, cur_out)
    ELSE IF status = SYS_OVERLOAD THEN overload_candidate(h, out_hyst, in_min, cur_in)
    ELSE [r |-> 1, avg_in |-> h.avg_in, avg_out |-> h.avg_out]

util_should_proceed(status, h, in_hyst, out_hyst, in_min, out_min, cur_in, cur_out) ==
    IF out_hyst = 0 /\ in_hyst = 0
    THEN [r |-> 1, avg_in |-> h.avg_in, avg_out |-> h.avg_out]
    ELSE IF status = SYS_IDLE THEN idle_candidate(h, in_hyst, out_min, cur_out)
    ELSE IF status = SYS_OVERLOAD THEN overload_candidate(h, out_hyst, in_min, cur_in)
    ELSE [r |-> 0, avg_in |-> h.avg_in, avg_out |-> h.avg_out]

get_util_interval(inlpm, exit_interval, entry_interval, bcpu, frun) ==
    IF inlpm
    THEN IF exit_interval # 0 \/ bcpu < 0 THEN exit_interval
         ELSE IF frun = 1 THEN 1000
         ELSE LET i == CDiv(CDiv(1000 * (10000 - bcpu), 10000), 100) * 100
              IN  IF i = 0 THEN 100 ELSE i
    ELSE IF entry_interval # 0 THEN entry_interval
         ELSE LET i == CDiv(1000, 100) * 100
              IN  IF i = 0 THEN 100 ELSE i

(***************************************************************************)
(* Config-state matcher (lpmd_util.c 493-674)                              *)
(***************************************************************************)
\* The system-load check of state_match: TRUE when it sends the state to
\* "unmatch".  is_current stands for state == current_state.
system_load_unmatch_both(state, is_current, bsys) ==
    /\ state.entry_system_load_thres # 0
    /\ bsys > state.entry_system_load_thres
    /\ \/ state.exit_system_load_hyst = 0
       \/ ~is_current
       \/ /\ bsys > state.entry_load_sys + state.exit_system_load_hyst
          /\ bsys > state.entry_system_load_thres + state.exit_system_load_hyst

system_load_unmatch(state, is_current, bsys) ==
    /\ state.entry_system_load_thres # 0
    /\ bsys > state.entry_system_load_thres
    /\ \/ state.exit_system_load_hyst = 0
       \/ ~is_current
       \/ bsys > state.entry_load_sys + state.exit_system_load_hyst
       \/ bsys > state.entry_system_load_thres + state.exit_system_load_hyst

state_match(state, is_current, bsys, bcpu, bgfx, wlt_index) ==
    IF ~state.valid THEN FALSE
    ELSE IF state.wlt_type # -1 /\ state.wlt_type # wlt_index THEN FALSE
    ELSE IF state.wlt_type # -1 /\ state.enter_gfx_load_thres = 0 THEN TRUE
    ELSE IF /\ state.enter_cpu_load_thres = 0
            /\ state.entry_system_load_thres = 0
            /\ state.enter_gfx_load_thres = 0 THEN TRUE
    ELSE IF state.enter_cpu_load_thres # 0 /\ bcpu > state.enter_cpu_load_thres THEN FALSE
    ELSE IF /\ state.enter_gfx_load_thres # 0
            /\ bgfx # -1
            /\ bgfx > state.enter_gfx_load_thres THEN FALSE
    ELSE ~system_load_unmatch(state, is_current, bsys)

\* The polling interval of a state that stays active (enter_state 553-567);
\* itv is the static interval left by the previous call.
stay_interval_noclamp(state, itv, bcpu) ==
    LET i1 == IF state.poll_interval_increment > 0
              THEN itv + state.poll_interval_increment ELSE itv
    IN  IF state.poll_interval_increment = -1
        THEN CDiv(CDiv(state.max_poll_interval * (10000 - bcpu), 10000), 100) * 100
        ELSE i1

stay_interval(state, itv, bcpu) ==
    LET i1 == IF state.poll_interval_increment > 0
              THEN itv + state.poll_interval_increment ELSE itv
        i2 == IF state.poll_interval_increment = -1
              THEN CDiv(CDiv(state.max_poll_interval * (10000 - bcpu), 10000), 100) * 100
              ELSE i1
        i3 == IF state.min_poll_interval # 0 /\ i2 < state.min_poll_interval
              THEN state.min_poll_interval ELSE i2
    IN  IF state.max_poll_interval # 0 /\ i3 > state.max_poll_interval
        THEN state.max_poll_interval ELSE i3

\* The actuator calls of enter_state (570-587), in order.
enter_actuators(state) ==
    <<  <<"set_lpm_epp", state.epp>>,
        <<"set_lpm_epb", state.epb>>,
        <<"set_lpm_itmt", state.itmt_state>> >>
    \o (IF state.active_cpus # ""
        THEN << <<"reset_cpus", "CPUMASK_UTIL">>,
                <<"parse_cpu_str", state.active_cpus>>,
                (IF state.irq_migrate # SETTING_IGNORE
                 THEN <<"set_lpm_irq", "CPUMASK_UTIL">>
                 ELSE <<"set_lpm_irq", SETTING_IGNORE>>),
                <<"set_lpm_cpus", "CPUMASK_UTIL">> >>
        ELSE << <<"set_lpm_irq", SETTING_IGNORE>>,
                <<"set_lpm_cpus", "CPUMASK_MAX">> >>)
    \o << <<"process_lpm", "UTIL_ENTER">> >>

\* enter_state(&states[i], bsys, bcpu) with current_state = cur and the static
\* interval itv: the new list, current_state and interval, and the calls made.
enter_state_always(states, i, cur, itv, bsys, bcpu) ==
    LET st == [states[i] EXCEPT !.entry_load_sys = bsys, !.entry_load_cpu = bcpu]
    IN  [states   |-> [states EXCEPT ![i] = st],
         current  |-> i,
         interval |-> IF st.min_poll_interval # 0
                      THEN st.min_poll_interval ELSE DEFAULT_POLL_RATE_MS,
         calls    |-> enter_actuators(st)]

enter_state(states, i, cur, itv, bsys, bcpu) ==
    LET st == [states[i] EXCEPT !.entry_load_sys = bsys, !.entry_load_cpu = bcpu]
    IN  IF i = cur
        THEN [states   |-> [states EXCEPT ![i] = st],
              current  |-> cur,
              interval |-> stay_interval(st, itv, bcpu),
              calls    |-> << >>]
        ELSE [states   |-> [states EXCEPT ![i] = st],
              current  |-> i,
              interval |-> IF st.min_poll_interval # 0
                           THEN st.min_poll_interval ELSE DEFAULT_POLL_RATE_MS,
              calls    |-> enter_actuators(st)]

\* The scan of process_next_config_state (660-666): the index of the state the
\* loop stops at, starting at index i; 0 when the loop runs off the list.
RECURSIVE scan_states(_, _, _, _, _, _, _)
scan_states(states, i, cur, bsys, bcpu, bgfx, wlt_index) ==
    IF i > Len(states) THEN 0
    ELSE IF state_match(states[i], i = cur, bsys, bcpu, bgfx, wlt_index) THEN i
    ELSE scan_states(states, i + 1, cur, bsys, bcpu, bgfx, wlt_index)

\* A scan that keeps going and takes the last match.
RECURSIVE scan_states_last(_, _, _, _, _, _, _)
scan_states_last(states, i, cur, bsys, bcpu, bgfx, wlt_index) ==
    IF i > Len(states) THEN 0
    ELSE LET later == scan_states_last(states, i + 1, cur, bsys, bcpu, bgfx, wlt_index)
         IN  IF later # 0 THEN later
             ELSE IF state_match(states[i], i = cur, bsys, bcpu, bgfx, wlt_index) THEN i
             ELSE 0

first_match_last(states, cur, bsys, bcpu, bgfx, wlt_index) ==
    scan_states_last(states, 1, cur, bsys, bcpu, bgfx, wlt_index)

first_match(states, cur, bsys, bcpu, bgfx, wlt_index) ==
    scan_states(states, 1, cur, bsys, bcpu, bgfx, wlt_index)

process_next_config_state_keeps(states, cur, itv, bsys, bcpu, bgfx, wlt_index) ==
    LET i == first_match(states, cur, bsys, bcpu, bgfx, wlt_index)
    IN  IF i = 0
        THEN [sel |-> 0, ret |-> itv, states |-> states, current |-> cur,
              interval |-> itv, calls |-> << >>]
        ELSE LET e == enter_state(states, i, cur, itv, bsys, bcpu)
             IN  [sel |-> i, ret |-> e.interval, states |-> e.states,
                  current |-> e.current, interval |-> e.interval, calls |-> e.calls]

\* process_next_config_state: the matched index (0 = none), the returned
\* interval (-1 when nothing matched) and the state enter_state leaves.
process_next_config_state(states, cur, itv, bsys, bcpu, bgfx, wlt_index) ==
    LET i == first_match(states, cur, bsys, bcpu, bgfx, wlt_index)
    IN  IF i = 0
        THEN [sel |-> 0, ret |-> -1, states |-> states, current |-> cur,
              interval |-> itv, calls |-> << >>]
        ELSE LET e == enter_state(states, i, cur, itv, bsys, bcpu)
             IN  [sel |-> i, ret |-> e.interval, states |-> e.states,
                  current |-> e.current, interval |-> e.interval, calls |-> e.calls]

(***************************************************************************)
(* util_init (lpmd_util.c 752-791)                                         *)
(***************************************************************************)
\* parse_cpu_str() of a state's cpu list: the number of cpus, <= 0 on failure.
parse_cpu_str(str) == IF str = "bad" THEN -1 ELSE 4

\* TRUE when the loop of util_init skips the state (and marks it invalid).
util_init_skips(st) == st.active_cpus # "" /\ parse_cpu_str(st.active_cpus) <= 0

util_init_state(st) ==
    IF util_init_skips(st) THEN [st EXCEPT !.valid = FALSE]
    ELSE LET min1 == IF st.min_poll_interval = 0
                     THEN (IF st.max_poll_interval > DEFAULT_POLL_RATE_MS
                           THEN DEFAULT_POLL_RATE_MS ELSE st.max_poll_interval)
                     ELSE st.min_poll_interval
             max1 == IF st.max_poll_interval = 0
                     THEN (IF min1 > DEFAULT_POLL_RATE_MS THEN min1 ELSE DEFAULT_POLL_RATE_MS)
                     ELSE st.max_poll_interval
         IN  [st EXCEPT !.min_poll_interval = min1,
                        !.max_poll_interval = max1,
                        !.poll_interval_increment =
                            IF st.poll_interval_increment = 0 THEN -1
                            ELSE st.poll_interval_increment,
                        !.entry_system_load_thres = st.entry_system_load_thres * 100,
                        !.enter_cpu_load_thres = st.enter_cpu_load_thres * 100,
                        !.enter_gfx_load_thres = st.enter_gfx_load_thres * 100]

nr_state(states) == Cardinality({i \in 1..Len(states) : ~util_init_skips(states[i])})

(***************************************************************************)
(* Actuator and mode interface (lpmd.h): in_lpm() follows process_lpm().   *)
(***************************************************************************)
process_lpm(cmd, inlpm) ==
    IF cmd = "UTIL_ENTER" THEN TRUE
    ELSE IF cmd = "UTIL_EXIT" THEN FALSE
    ELSE inlpm

\* in_lpm() after the calls of one operation.
lpm_after(calls, inlpm) ==
    IF \E k \in 1..Len(calls) : calls[k][1] = "process_lpm"
    THEN process_lpm(calls[Len(calls)][2], inlpm)
    ELSE inlpm

(***************************************************************************)
(* Spike burst detector (spike_mgmt.c)                                     *)
(***************************************************************************)
MAX_TRACKED_SPIKE_TIME == 1000

MAX_BURST_COUNT == 1000

\* SPIKE_TIME_BIAS(avg, min) cast to int.  avg and min hold whole numbers with
\* 0 <= avg <= 100, so the float product is exact and the cast is the floor.
SPIKE_TIME_BIAS(avg, min) == ((100 - avg) * min) \div (2 * 100)

get_spike_rate(total) ==
    LET spike_pct == CDiv(total * 100, MAX_TRACKED_SPIKE_TIME)
    IN  IF spike_pct > 100 THEN 100 ELSE spike_pct

\* update_burst_count(real_spike_burst) at clock reading t, with gate standing
\* for get_cur_state() <= MDRT4E_MODE.  b is [burst_count, spike_sec_prev,
\* burst_rate_per_min]; reset_min is bc_reset_min.  minutes is
\* (t - spike_sec_prev) / bc_reset_min, so minutes > 1.0 is t - prev > reset_min.
\* incs counts the burst_count++ executed.
update_burst_count_nosat(real_spike_burst, b, reset_min, t, gate) ==
    IF b.spike_sec_prev = 0
    THEN [burst_count |-> b.burst_count, spike_sec_prev |-> t,
          burst_rate_per_min |-> b.burst_rate_per_min, incs |-> 0]
    ELSE LET dt    == t - b.spike_sec_prev
             count == real_spike_burst /\ gate
             clear == ~count /\ dt > reset_min
             bc    == IF count THEN b.burst_count + 1
                      ELSE IF clear THEN 0 ELSE b.burst_count
         IN  [burst_count |-> bc,
              spike_sec_prev |-> IF count \/ clear THEN t ELSE b.spike_sec_prev,
              burst_rate_per_min |->
                  IF dt < reset_min THEN bc
                  ELSE IF dt > reset_min THEN (bc * reset_min) \div dt
                  ELSE b.burst_rate_per_min,
              incs |-> IF count THEN 1 ELSE 0]

update_burst_count(real_spike_burst, b, reset_min, t, gate) ==
    IF b.spike_sec_prev = 0
    THEN [burst_count |-> b.burst_count, spike_sec_prev |-> t,
          burst_rate_per_min |-> b.burst_rate_per_min, incs |-> 0]
    ELSE LET dt    == t - b.spike_sec_prev
             count == real_spike_burst /\ gate
             clear == ~count /\ (dt > reset_min \/ b.burst_count > MAX_BURST_COUNT)
             bc    == IF count THEN b.burst_count + 1
                      ELSE IF clear THEN 0 ELSE b.burst_count
         IN  [burst_count |-> bc,
              spike_sec_prev |-> IF count \/ clear THEN t ELSE b.spike_sec_prev,
              burst_rate_per_min |->
                  IF dt < reset_min THEN bc
                  ELSE IF dt > reset_min THEN (bc * reset_min) \div dt
                  ELSE b.burst_rate_per_min,
              incs |-> IF count THEN 1 ELSE 0]

\* The accumulator steps of add_spike_time (155-156) and add_non_spike_time
\* (177-179).
spike_time_add_nocap(total, duration) == total + duration

spike_time_add(total, duration) ==
    IF total < MAX_TRACKED_SPIKE_TIME THEN total + duration ELSE total

spike_time_sub(total, duration) ==
    LET d == IF total > 0 THEN total - duration ELSE total
    IN  IF d < 0 THEN 0 ELSE d

\* The new bc_reset_min of a falling edge (190), from the burst average avg and
\* the window b so far.
bc_reset_retune(avg, b) == 60 - SPIKE_TIME_BIAS(avg, b)

BurstBook == [burst_count |-> burst_count, spike_sec_prev |-> spike_sec_prev,
              burst_rate_per_min |-> burst_rate_per_min]

\* update_spike_rate_avg(sr) (76-80) and clear_spike_rate_avg() (83-86) on the
\* pair spike_rate_total, spike_rate_samples.
update_spike_rate_avg_nocount(sr, total, samples) ==
    [total |-> total + sr, samples |-> samples]

update_spike_rate_avg(sr, total, samples) ==
    [total |-> total + sr, samples |-> samples + 1]

clear_spike_rate_avg == [total |-> 0, samples |-> 0]

\* add_spike_time(duration), seeing state_demote = demote.
add_spike_time(duration, demote, gate, t) ==
    \E total \in {spike_time_add(total_spike_time, duration)} :
    \E counted \in {spike_burst_flag /\ demote # 0 /\ once_flag = 0} :
    \E u \in {IF counted THEN update_burst_count(TRUE, BurstBook, bc_reset_min, t, gate)
              ELSE [burst_count |-> burst_count, spike_sec_prev |-> spike_sec_prev,
                    burst_rate_per_min |-> burst_rate_per_min, incs |-> 0]} :
        /\ ncalls' = ncalls + 1
        /\ now_sec' = t
        /\ state_demote' = demote
        /\ total_spike_time' = total
        /\ spike_burst_flag' = TRUE
        /\ once_flag' = IF counted THEN 1 ELSE once_flag
        /\ burst_count' = u.burst_count
        /\ spike_sec_prev' = u.spike_sec_prev
        /\ burst_rate_per_min' = u.burst_rate_per_min
        /\ spike_rate_total' =
               update_spike_rate_avg(get_spike_rate(total), spike_rate_total,
                                     spike_rate_samples).total
        /\ spike_rate_samples' =
               update_spike_rate_avg(get_spike_rate(total), spike_rate_total,
                                     spike_rate_samples).samples
        /\ UNCHANGED bc_reset_min
        /\ spike_op' = IF spike_burst_flag THEN "spike" ELSE "rising"
        /\ burst_spikes' = IF spike_burst_flag THEN burst_spikes + 1 ELSE 1
        /\ burst_incs' = IF spike_burst_flag THEN burst_incs + u.incs ELSE 0
        /\ UNCHANGED retune
        /\ UNCHANGED <<utilVars, restVars>>

\* add_non_spike_time(duration)
add_non_spike_time(duration, demote, gate, t) ==
    \E total \in {spike_time_sub(total_spike_time, duration)} :
    \E falling \in {get_spike_rate(total) = 0 /\ spike_burst_flag} :
    \E u \in {IF falling /\ once_flag # 0
              THEN [burst_count |-> burst_count, spike_sec_prev |-> spike_sec_prev,
                    burst_rate_per_min |-> burst_rate_per_min, incs |-> 0]
              ELSE update_burst_count(falling, BurstBook, bc_reset_min, t, gate)} :
        /\ ncalls' = ncalls + 1
        /\ now_sec' = t
        /\ state_demote' = demote
        /\ total_spike_time' = total
        /\ spike_burst_flag' = IF falling THEN FALSE ELSE spike_burst_flag
        /\ once_flag' = 0
        /\ burst_count' = u.burst_count
        /\ spike_sec_prev' = u.spike_sec_prev
        /\ burst_rate_per_min' = u.burst_rate_per_min
        /\ bc_reset_min' =
              IF falling
              THEN bc_reset_retune(CDiv(spike_rate_total, spike_rate_samples),
                                   bc_reset_min)
              ELSE bc_reset_min
        /\ retune' = IF falling
                     THEN [avg |-> CDiv(spike_rate_total, spike_rate_samples),
                           b |-> bc_reset_min]
                     ELSE retune
        /\ spike_rate_total' =
               IF falling THEN clear_spike_rate_avg.total ELSE spike_rate_total
        /\ spike_rate_samples' =
               IF falling THEN clear_spike_rate_avg.samples ELSE spike_rate_samples
        /\ spike_op' = IF falling THEN "falling" ELSE "non_spike"
        /\ burst_spikes' = burst_spikes
        /\ burst_incs' = burst_incs + u.incs
        /\ UNCHANGED <<utilVars, restVars>>

\* strikeout_once(n) on strike_count = sc: the new strike_count, which is also
\* the value returned.
strikeout_once_noseed(n, sc) ==
    LET c == IF sc = 0 THEN 0 ELSE sc - 1
    IN  IF c < 0 THEN 0 ELSE c

strikeout_once(n, sc) ==
    LET c == IF sc = 0 THEN n ELSE sc - 1
    IN  IF c < 0 THEN 0 ELSE c

(***************************************************************************)
(* Inputs                                                                  *)
(***************************************************************************)
\* Largest clock reading (ms) the model lets time reach.
MaxTime == 2000

\* A reading of /proc/stat: parse_proc_stat fails and leaves busy_sys and
\* busy_cpu alone, or it sets them.
NoStat == [ok |-> FALSE, bsys |-> -1, bcpu |-> -1]

Stat(s, c) == [ok |-> TRUE, bsys |-> s, bcpu |-> c]

\* One lpmd_config_state_t as the configuration loader leaves it (thresholds in
\* percent, intervals in ms); calloc'ed fields are 0.
ConfigState(wlt, sys, cpu, gfx, hyst, minp, maxp, inc, cpus, irq) ==
    [valid |-> TRUE, wlt_type |-> wlt,
     entry_system_load_thres |-> sys, enter_cpu_load_thres |-> cpu,
     enter_gfx_load_thres |-> gfx, exit_system_load_hyst |-> hyst,
     min_poll_interval |-> minp, max_poll_interval |-> maxp,
     poll_interval_increment |-> inc,
     active_cpus |-> cpus, irq_migrate |-> irq,
     epp |-> 128, epb |-> 6, itmt_state |-> 0,
     entry_load_sys |-> 0, entry_load_cpu |-> 0]

\* Utilization profiles: a sticky band, a plain threshold and a catch-all;
\* and a list whose first profile has an unparsable cpu list.
UtilProfileLists ==
    { << ConfigState(-1, 50, 0, 0, 1000, 100, 1000, 0, "", SETTING_IGNORE),
         ConfigState(-1, 55, 0, 0, 0, 250, 2000, 0, "0-3", "ENABLE"),
         ConfigState(-1, 0, 0, 0, 0, 100, 300, 100, "0-3", SETTING_IGNORE) >>,
      << ConfigState(-1, 50, 0, 0, 1000, 100, 1000, 0, "bad", SETTING_IGNORE),
         ConfigState(-1, 50, 90, 0, 1000, 0, 0, 0, "", SETTING_IGNORE),
         ConfigState(-1, 0, 0, 0, 0, 300, 300, 50, "0-3", SETTING_IGNORE) >> }

\* Workload-hint profiles with graphics thresholds.
HintProfileLists ==
    { << ConfigState(0, 50, 0, 0, 0, 0, 0, 0, "", SETTING_IGNORE),
         ConfigState(1, 50, 0, 30, 1000, 200, 600, 0, "0-3", "ENABLE"),
         ConfigState(-1, 0, 90, 30, 0, 0, 1500, 0, "", SETTING_IGNORE),
         ConfigState(0, 0, 0, 0, 0, 0, 0, 0, "0-3", "ENABLE") >> }

\* Global configuration: thresholds in percent, intervals and hysteresis in ms.
GlobalConfig(mon, poll, eint, xint, ehyst, xhyst) ==
    [has_util_monitor |-> mon, wlt_hint_poll_enable |-> poll,
     util_entry_threshold |-> 50, util_exit_threshold |-> 80,
     util_entry_interval |-> eint, util_exit_interval |-> xint,
     util_entry_hyst |-> ehyst, util_exit_hyst |-> xhyst]

NoPre == [current |-> 0, lpm |-> FALSE, first_run |-> 1, initialized |-> FALSE,
          avg_in |-> 0, avg_out |-> 0, cur_in |-> 0, cur_out |-> 0]

(***************************************************************************)
(* Initial state: the statics of both files as the loader leaves them      *)
(***************************************************************************)
InitSpikeVars ==
    /\ burst_count = 0
    /\ total_spike_time = 0
    /\ spike_sec_prev = 0
    /\ spike_rate_total = 0
    /\ spike_rate_samples = 0
    /\ burst_rate_per_min = 0
    /\ spike_burst_flag = FALSE
    /\ bc_reset_min = 90
    /\ once_flag = 0
    /\ state_demote = 0
    /\ now_sec = 1
    /\ spike_op = "start"
    /\ ncalls = 0
    /\ burst_spikes = 0
    /\ burst_incs = 0
    /\ retune = [avg |-> 0, b |-> 0]

InitStrike ==
    /\ strike_count = 0
    /\ strike_calls = 0
    /\ strike_n = 0
    /\ strike_uniform = TRUE
    /\ strike_ret = 0

\* calloc leaves both snapshot arrays zeroed.
InitStat ==
    /\ proc_stat_prev = [i \in 0..get_max_online_cpu |-> NoSlot]
    /\ proc_stat_cur = [i \in 0..get_max_online_cpu |-> NoSlot]

InitGfx ==
    /\ gfx_sysfs_available = 1
    /\ ts_prev = 0
    /\ gfx_rc6_prev = ULLONG_MAX
    /\ sam_mc6_prev = ULLONG_MAX
    /\ tsc_prev = 0
    /\ val_prev = 0
    /\ gfx_now = 1000
    /\ gfx_calls = 0
    /\ gfx_op = "start"
    /\ gfx_elapsed = -1
    /\ gfx_fault = FALSE

InitRest == InitStrike /\ InitStat /\ InitGfx

InitUtilVars(lists, cfgs, modes) ==
    /\ cfg \in cfgs
    /\ config_states \in lists
    /\ lpm \in modes
    /\ now = 1
    /\ inited = FALSE
    /\ current_state = 0
    /\ interval = DEFAULT_POLL_RATE_MS
    /\ busy_sys = -1
    /\ busy_cpu = -1
    /\ busy_gfx = -1
    /\ sys_stat = SYS_NORMAL
    /\ first_run = 1
    /\ use_config_state = 1
    /\ initialized = FALSE
    /\ util_in_hyst = 0
    /\ util_out_hyst = 0
    /\ util_in_min = 0
    /\ util_out_min = 0
    /\ avg_in = 0
    /\ avg_out = 0
    /\ tp_last_in = 0
    /\ tp_last_out = 0
    /\ op = "start"
    /\ wlt_arg = -1
    /\ ret = -1
    /\ acts = << >>
    /\ sel = 0
    /\ proceed = -1
    /\ pre = NoPre

InitUtil(lists, cfgs, modes) ==
    /\ InitUtilVars(lists, cfgs, modes)
    /\ InitSpikeVars
    /\ InitRest

(***************************************************************************)
(* Operations                                                              *)
(***************************************************************************)
\* util_init(lpmd_config), called once before the first tick.
util_init ==
    /\ ~inited
    /\ inited' = TRUE
    /\ config_states' = [i \in 1..Len(config_states) |-> util_init_state(config_states[i])]
    /\ use_config_state' = IF nr_state(config_states) < 2 THEN 0 ELSE use_config_state
    /\ op' = "util_init"
    /\ ret' = IF nr_state(config_states) < 2 THEN 1 ELSE 0
    /\ acts' = << >>
    /\ sel' = 0
    /\ proceed' = -1
    /\ UNCHANGED <<cfg, lpm, now, current_state, interval, busy_sys, busy_cpu,
                   busy_gfx, sys_stat, first_run, initialized, util_in_hyst,
                   util_out_hyst, util_in_min, util_out_min, avg_in, avg_out,
                   tp_last_in, tp_last_out, wlt_arg, pre, spikeVars, restVars>>

\* reset_config_state()
reset_config_state ==
    /\ current_state' = 0
    /\ op' = "reset_config_state"
    /\ acts' = << >>
    /\ sel' = 0
    /\ proceed' = -1
    /\ UNCHANGED <<cfg, lpm, now, inited, config_states, interval, busy_sys,
                   busy_cpu, busy_gfx, sys_stat, first_run, use_config_state,
                   initialized, util_in_hyst, util_out_hyst, util_in_min,
                   util_out_min, avg_in, avg_out, tp_last_in, tp_last_out,
                   wlt_arg, ret, pre, spikeVars, restVars>>

\* The test of periodic_util_update (716) that sends a tick without hint to the
\* simple classifier rather than to the matcher.
simple_path_always(config_state_count, use) == TRUE

simple_path(config_state_count, use) == config_state_count = 0 \/ use = 0

\* What a tick starts from: the active state, the mode, and the hysteresis
\* state as util_should_proceed would see it (after the lazy initialisation).
SnapshotAt(t, last_in, last_out) ==
    [current |-> current_state, lpm |-> lpm, first_run |-> first_run,
     initialized |-> initialized,
     avg_in |-> IF initialized THEN avg_in ELSE cfg.util_entry_hyst,
     avg_out |-> IF initialized THEN avg_out ELSE cfg.util_exit_hyst,
     cur_in |-> IF initialized THEN t - last_in ELSE 0,
     cur_out |-> IF initialized THEN t - last_out ELSE 0]

Snapshot(t) == SnapshotAt(t, tp_last_in, tp_last_out)

\* periodic_util_update with a workload hint (683-697).
tick_hint(wlt_index, gfx, t) ==
    \E bg \in {IF cfg.wlt_hint_poll_enable THEN gfx ELSE busy_gfx} :
    \E p \in {process_next_config_state(config_states, current_state, interval,
                                        busy_sys, busy_cpu, bg, wlt_index)} :
        /\ busy_gfx' = bg
        /\ config_states' = p.states
        /\ current_state' = p.current
        /\ interval' = p.interval
        /\ lpm' = lpm_after(p.calls, lpm)
        /\ op' = "tick_hint"
        /\ ret' = IF cfg.wlt_hint_poll_enable THEN p.ret ELSE -1
        /\ acts' = p.calls
        /\ sel' = p.sel
        /\ proceed' = -1
        /\ pre' = Snapshot(t)
        /\ UNCHANGED <<busy_sys, busy_cpu, sys_stat, first_run, initialized,
                       util_in_hyst, util_out_hyst, util_in_min, util_out_min,
                       avg_in, avg_out, tp_last_in, tp_last_out>>

\* periodic_util_update without a hint and without the utilization monitor (700-701).
tick_disabled(t) ==
    /\ op' = "tick_disabled"
    /\ ret' = -1
    /\ acts' = << >>
    /\ sel' = 0
    /\ proceed' = -1
    /\ pre' = Snapshot(t)
    /\ UNCHANGED <<lpm, config_states, current_state, interval, busy_sys,
                   busy_cpu, busy_gfx, sys_stat, first_run, initialized,
                   util_in_hyst, util_out_hyst, util_in_min, util_out_min,
                   avg_in, avg_out, tp_last_in, tp_last_out>>

\* The simple classifier path (716-745); bs, bc, bg are the fresh readings and
\* h0 the hysteresis state after the lazy initialisation.
tick_simple(bs, bc, bg, h0, t) ==
    LET stat == get_sys_stat(first_run, lpm, bs, bc,
                             cfg.util_entry_threshold, cfg.util_exit_threshold)
        itv  == get_util_interval(lpm, cfg.util_exit_interval,
                                  cfg.util_entry_interval, bc, first_run)
        u    == util_should_proceed(stat, [avg_in |-> h0.avg_in, avg_out |-> h0.avg_out],
                                    h0.in_hyst, h0.out_hyst, h0.in_min, h0.out_min,
                                    t - h0.last_in, t - h0.last_out)
        go   == u.r # 0
    IN  /\ sys_stat' = stat
        /\ avg_in' = u.avg_in
        /\ avg_out' = u.avg_out
        /\ proceed' = u.r
        /\ first_run' = IF go /\ stat \in {SYS_IDLE, SYS_OVERLOAD} THEN 1 ELSE 0
        /\ acts' = IF go /\ stat = SYS_IDLE THEN << <<"process_lpm", "UTIL_ENTER">> >>
                   ELSE IF go /\ stat = SYS_OVERLOAD THEN << <<"process_lpm", "UTIL_EXIT">> >>
                   ELSE << >>
        /\ lpm' = IF go /\ stat = SYS_IDLE THEN process_lpm("UTIL_ENTER", lpm)
                  ELSE IF go /\ stat = SYS_OVERLOAD THEN process_lpm("UTIL_EXIT", lpm)
                  ELSE lpm
        /\ tp_last_in' = IF go /\ stat = SYS_IDLE THEN t ELSE h0.last_in
        /\ tp_last_out' = IF go /\ stat = SYS_OVERLOAD THEN t ELSE h0.last_out
        /\ ret' = IF go /\ stat = SYS_IDLE THEN 1000 ELSE itv
        /\ op' = "tick_simple"
        /\ sel' = 0
        /\ UNCHANGED <<config_states, current_state, interval>>

\* The profile path without a hint (746-747).
tick_profile(bs, bc, bg, h0, wlt_index) ==
    \E p \in {process_next_config_state(config_states, current_state, interval,
                                        bs, bc, bg, wlt_index)} :
        /\ config_states' = p.states
        /\ current_state' = p.current
        /\ interval' = p.interval
        /\ lpm' = lpm_after(p.calls, lpm)
        /\ op' = "tick_profile"
        /\ ret' = p.ret
        /\ acts' = p.calls
        /\ sel' = p.sel
        /\ proceed' = -1
        /\ avg_in' = h0.avg_in
        /\ avg_out' = h0.avg_out
        /\ tp_last_in' = h0.last_in
        /\ tp_last_out' = h0.last_out
        /\ UNCHANGED <<sys_stat, first_run>>

\* periodic_util_update(lpmd_config, wlt_index); ps and gfx are what
\* parse_proc_stat and parse_gfx_util read during the call, t the clock reading
\* of the call, last_in and last_out the readings held in tp_last_in and
\* tp_last_out.
periodic_util_update_at(wlt_index, ps, gfx, t, last_in, last_out) ==
    /\ inited
    /\ t <= MaxTime
    /\ now' = t
    /\ wlt_arg' = wlt_index
    /\ UNCHANGED <<cfg, inited, use_config_state, spikeVars, restVars>>
    /\ IF wlt_index >= 0 THEN tick_hint(wlt_index, gfx, t)
       ELSE IF ~cfg.has_util_monitor THEN tick_disabled(t)
       ELSE LET h0 == IF initialized
                      THEN [in_hyst |-> util_in_hyst, out_hyst |-> util_out_hyst,
                            in_min |-> util_in_min, out_min |-> util_out_min,
                            avg_in |-> avg_in, avg_out |-> avg_out,
                            last_in |-> last_in, last_out |-> last_out]
                      ELSE [in_hyst |-> cfg.util_entry_hyst,
                            out_hyst |-> cfg.util_exit_hyst,
                            in_min |-> cfg.util_entry_hyst \div 2,
                            out_min |-> cfg.util_exit_hyst \div 2,
                            avg_in |-> cfg.util_entry_hyst,
                            avg_out |-> cfg.util_exit_hyst,
                            last_in |-> t, last_out |-> t]
                bs == IF ps.ok THEN ps.bsys ELSE busy_sys
                bc == IF ps.ok THEN ps.bcpu ELSE busy_cpu
            IN  /\ initialized' = TRUE
                /\ util_in_hyst' = h0.in_hyst
                /\ util_out_hyst' = h0.out_hyst
                /\ util_in_min' = h0.in_min
                /\ util_out_min' = h0.out_min
                /\ busy_sys' = bs
                /\ busy_cpu' = bc
                /\ busy_gfx' = gfx
                /\ pre' = SnapshotAt(t, last_in, last_out)
                /\ IF simple_path(Len(config_states), use_config_state)
                   THEN tick_simple(bs, bc, gfx, h0, t)
                   ELSE tick_profile(bs, bc, gfx, h0, wlt_index)

periodic_util_update(wlt_index, ps, gfx, t) ==
    periodic_util_update_at(wlt_index, ps, gfx, t, tp_last_in, tp_last_out)

(***************************************************************************)
(* Specifications                                                          *)
(***************************************************************************)
\* Profile mode with utilization profiles.  The readings put busy_sys below,
\* inside and above the sticky band of a 50% threshold with a hysteresis of
\* 1000, and busy_cpu below and above a 90% threshold.
MatchConfigs == {GlobalConfig(TRUE, TRUE, 0, 0, 0, 0), GlobalConfig(FALSE, FALSE, 0, 0, 0, 0)}

MatchStats ==
    {NoStat, Stat(4500, 2500), Stat(5500, 2500), Stat(5500, 10000),
     Stat(5800, 2500), Stat(6100, 2500)}

MatchGfx == {-1}

MatchWlt == {-1, 0}

InitMatch == InitUtil(UtilProfileLists, MatchConfigs, {FALSE})

TickMatch ==
    \E wlt_index \in MatchWlt, ps \in MatchStats, gfx \in MatchGfx :
        periodic_util_update(wlt_index, ps, gfx, now)

NextMatch == util_init \/ reset_config_state \/ TickMatch

SpecMatch == InitMatch /\ [][NextMatch]_vars

\* Profile mode with workload-hint profiles and graphics thresholds.
HintStats == {NoStat, Stat(4500, 2500), Stat(5500, 2500), Stat(5800, 10000), Stat(6100, 2500)}

HintGfx == {-1, 2000, 4000}

HintWlt == {-1, 0, 1}

InitHint == InitUtil(HintProfileLists, MatchConfigs, {FALSE})

TickHint ==
    \E wlt_index \in HintWlt, ps \in HintStats, gfx \in HintGfx :
        periodic_util_update(wlt_index, ps, gfx, now)

NextHint == util_init \/ reset_config_state \/ TickHint

SpecHint == InitHint /\ [][NextHint]_vars

\* Simple classifier mode: no profile configured.  Entry threshold 50%, exit
\* threshold 80%; fixed poll intervals set or not; hysteresis off, one-sided, on.
SimpleConfigs ==
    {GlobalConfig(TRUE, FALSE, i[1], i[2], h[1], h[2]) :
        i \in {<<0, 0>>, <<200, 300>>},
        h \in {<<0, 0>>, <<0, 1000>>, <<3, 1000>>, <<2000, 1000>>}}

SimpleStats == {NoStat, Stat(4500, 2500), Stat(6100, 2500), Stat(6100, 10000)}

SimpleGfx == {-1}

SimpleWlt == {-1, 0}

InitSimple == InitUtil({<< >>}, SimpleConfigs, BOOLEAN)

\* Time between two ticks: shorter and longer than the minimum dwell times.
SimpleSteps == {300, 1000}

TickSimple ==
    \E wlt_index \in SimpleWlt, ps \in SimpleStats, gfx \in SimpleGfx, dt \in SimpleSteps :
        periodic_util_update(wlt_index, ps, gfx, now + dt)

NextSimple == util_init \/ TickSimple

SpecSimple == InitSimple /\ [][NextSimple]_vars

\* The spike burst detector alone, fed one classified sample per call.
MaxCalls == 6

SpikeDurations == {500, 1000}

\* Seconds between two samples: inside and beyond any memory window (15..90 s).
SpikeSteps == {1, 100}

InitSpike ==
    /\ InitUtil({<< >>}, {GlobalConfig(FALSE, FALSE, 0, 0, 0, 0)}, {FALSE})

RecordSpike ==
    \E d \in SpikeDurations, demote \in {0, 1}, gate \in BOOLEAN, dt \in SpikeSteps :
        ncalls < MaxCalls /\ add_spike_time(d, demote, gate, now_sec + dt)

RecordNonSpike ==
    \E d \in SpikeDurations, demote \in {0, 1}, gate \in BOOLEAN, dt \in SpikeSteps :
        ncalls < MaxCalls /\ add_non_spike_time(d, demote, gate, now_sec + dt)

NextSpike == RecordSpike \/ RecordNonSpike

SpecSpike == InitSpike /\ [][NextSpike]_vars

\* The detector after a long run of counted bursts: the states it is in after
\* one add_non_spike_time(500) and then 999 or 1000 rounds, a second apart, of
\* add_spike_time(500), add_spike_time(500), add_non_spike_time(1000) with
\* state_demote set and the gate open.
InitBurstCap ==
    /\ InitUtilVars({<< >>}, {GlobalConfig(FALSE, FALSE, 0, 0, 0, 0)}, {FALSE})
    /\ InitRest
    /\ burst_count \in {MAX_BURST_COUNT - 1, MAX_BURST_COUNT}
    /\ burst_rate_per_min = burst_count
    /\ now_sec = 3 * burst_count + 2
    /\ spike_sec_prev = now_sec - 1
    /\ total_spike_time = 0
    /\ spike_rate_total = 0
    /\ spike_rate_samples = 0
    /\ spike_burst_flag = FALSE
    /\ bc_reset_min = 54
    /\ once_flag = 0
    /\ state_demote = 1
    /\ spike_op = "falling"
    /\ ncalls = 0
    /\ burst_spikes = 2
    /\ burst_incs = 1
    /\ retune = [avg |-> 75, b |-> 54]

SpecBurstCap == InitBurstCap /\ [][NextSpike]_vars

\* The debounce countdown alone: strikeout_once called with arguments that are
\* negative, and positive ones short and long enough to run out and start over.
MaxStrikes == 8

StrikeArgs == {-1, 2, 3, 5}

Strikeout ==
    \E n \in StrikeArgs :
        /\ strike_calls < MaxStrikes
        /\ strike_count' = strikeout_once(n, strike_count)
        /\ strike_ret' = strikeout_once(n, strike_count)
        /\ strike_calls' = strike_calls + 1
        /\ strike_n' = n
        /\ strike_uniform' = (strike_uniform /\ (strike_calls = 0 \/ strike_n = n))
        /\ UNCHANGED <<utilVars, spikeVars, statVars, gfxVars>>

NextStrike == Strikeout

SpecStrike == InitSpike /\ [][NextStrike]_vars

\* Profile lists with fewer than two valid profiles, and one with two; ticks
\* with and without a workload hint, with and without readings.
ModeProfileLists ==
    { << ConfigState(-1, 0, 0, 0, 0, 100, 300, 100, "0-3", SETTING_IGNORE) >>,
      << ConfigState(-1, 50, 0, 0, 1000, 100, 1000, 0, "bad", SETTING_IGNORE),
         ConfigState(-1, 50, 90, 30, 1000, 0, 0, 0, "", SETTING_IGNORE) >>,
      << ConfigState(-1, 50, 90, 30, 1000, 100, 1000, 0, "", SETTING_IGNORE),
         ConfigState(-1, 0, 0, 0, 0, 100, 300, 100, "0-3", SETTING_IGNORE) >> }

ModeStats == {NoStat, Stat(4500, 2500), Stat(6100, 10000)}

ModeGfx == {-1, 4000}

ModeWlt == {-1, 0}

InitMode == InitUtil(ModeProfileLists, MatchConfigs, {FALSE})

TickMode ==
    \E wlt_index \in ModeWlt, ps \in ModeStats, gfx \in ModeGfx :
        periodic_util_update(wlt_index, ps, gfx, now)

NextMode == util_init \/ reset_config_state \/ TickMode

SpecMode == InitMode /\ [][NextMode]_vars

\* The counter snapshot store alone: parse_proc_stat on files in which each
\* CPU line is missing or carries one of a few counter pairs, and the system
\* line is the sum of the CPU lines as the kernel writes it.  Counters may go
\* back between two files (hotplug, restart of the source, iowait).
CpuReadings ==
    {NoSlot} \cup {[valid |-> 1, busy |-> c[1], idle |-> c[2]] :
                      c \in {<<0, 1>>, <<0, 2>>, <<1, 0>>, <<2, 0>>}}

RECURSIVE SumLines(_, _, _)
SumLines(f, field, i) ==
    IF i < 0 THEN 0 ELSE f[i][field] + SumLines(f, field, i - 1)

ProcStatFiles ==
    {[i \in 0..get_max_online_cpu |->
        IF i < get_max_online_cpu THEN f[i]
        ELSE [valid |-> 1,
              busy |-> SumLines(f, "busy", get_max_online_cpu - 1),
              idle |-> SumLines(f, "idle", get_max_online_cpu - 1)]] :
       f \in [0..(get_max_online_cpu - 1) -> CpuReadings]}

utilVarsButStat == <<cfg, lpm, now, inited, config_states, current_state, interval,
                     busy_gfx, sys_stat, first_run, use_config_state,
                     initialized, util_in_hyst, util_out_hyst, util_in_min,
                     util_out_min, avg_in, avg_out, tp_last_in, tp_last_out,
                     wlt_arg, ret, acts, sel, proceed, pre>>

ParseProcStat ==
    \E file \in ProcStatFiles :
    \E r \in {parse_proc_stat(file, proc_stat_prev, proc_stat_cur)} :
        /\ proc_stat_prev' = r.prev
        /\ proc_stat_cur' = r.cur
        /\ busy_sys' = r.busy_sys
        /\ busy_cpu' = r.busy_cpu
        /\ op' = "parse_proc_stat"
        /\ UNCHANGED <<utilVarsButStat, spikeVars, strikeVars, gfxVars>>

\* fopen(PATH_PROC_STAT) fails: parse_proc_stat returns 1 and touches nothing.
ParseProcStatFails ==
    /\ op' = "parse_proc_stat_failed"
    /\ UNCHANGED <<utilVarsButStat, busy_sys, busy_cpu, spikeVars, restVars>>

NextStat == ParseProcStat \/ ParseProcStatFails

SpecStat == InitSpike /\ [][NextStat]_vars

\* The GPU tracker alone: samples taken with and without time between them,
\* with the sysfs files present or not, reads that succeed or fail.
MaxSamples == 4

GfxSteps == {0, 1000}

\* What a residency file can hold step ms after it held prev: a value that does
\* not parse, or a counter that grew by at most the time that passed.  A file
\* that cannot be opened leaves the variable uninitialized: any of these.
ResidencyReadings(prev, step) ==
    LET base == IF prev = ULLONG_MAX THEN 0 ELSE prev
    IN  {ULLONG_MAX} \cup {base + i : i \in {0, step \div 2, step}}

\* What busy_gfx holds after a quotient by zero: the value it had, or any
\* percentage.
GfxUndefined == {-1, 0, 10000}

utilVarsButGfx == <<cfg, lpm, now, inited, config_states, current_state, interval,
                    busy_sys, busy_cpu, sys_stat, first_run, use_config_state,
                    initialized, util_in_hyst, util_out_hyst, util_in_min,
                    util_out_min, avg_in, avg_out, tp_last_in, tp_last_out,
                    op, wlt_arg, ret, acts, sel, proceed, pre>>

\* parse_gfx_util(): sysfs first, the MSR if that returns non-zero.  A division
\* by zero ends the run.
ParseGfxUtil ==
    \E step \in GfxSteps, probe_ok \in BOOLEAN, msr_ok \in BOOLEAN :
    \E gfx_rc6 \in ResidencyReadings(gfx_rc6_prev, step),
       sam_mc6 \in ResidencyReadings(sam_mc6_prev, step),
       val \in {UINT64_MAX} \cup {val_prev + i : i \in {0, step \div 2, step}} :
    \E s \in {parse_gfx_util_sysfs(gfx_now + step, probe_ok, gfx_rc6, sam_mc6,
                                   gfx_sysfs_available, ts_prev,
                                   gfx_rc6_prev, sam_mc6_prev)} :
    \E m \in {parse_gfx_util_msr(IF msr_ok THEN gfx_now + step ELSE UINT64_MAX,
                                 val, tsc_prev, val_prev)} :
        /\ gfx_calls < MaxSamples
        /\ ~gfx_fault
        /\ gfx_now' = gfx_now + step
        /\ gfx_calls' = gfx_calls + 1
        /\ gfx_sysfs_available' = s.avail
        /\ ts_prev' = s.ts_prev
        /\ gfx_rc6_prev' = s.rc6_prev
        /\ sam_mc6_prev' = s.mc6_prev
        /\ IF s.ret = 0
           THEN /\ UNCHANGED <<tsc_prev, val_prev>>
                /\ gfx_op' = "sysfs"
                /\ gfx_elapsed' = s.elapsed
                /\ gfx_fault' = s.fault
                /\ busy_gfx' \in IF s.fault THEN GfxUndefined ELSE {s.busy_gfx}
           ELSE /\ tsc_prev' = m.tsc_prev
                /\ val_prev' = m.val_prev
                /\ gfx_op' = IF m.ret = 0 THEN "msr" ELSE "failed"
                /\ gfx_elapsed' = m.elapsed
                /\ gfx_fault' = m.fault
                /\ busy_gfx' \in IF m.fault THEN GfxUndefined ELSE {m.busy_gfx}
        /\ UNCHANGED <<utilVarsButGfx, spikeVars, strikeVars, statVars>>

NextGfx == ParseGfxUtil

SpecGfx == InitSpike /\ [][NextGfx]_vars

\* The hysteresis filter over unbounded time.  The code uses clock readings
\* only through their differences, so the origin of the clock is moved forward
\* once a reading would pass HystHorizon; a reading older than the new origin is
\* kept as the origin, which records an elapsed time above HystHorizon as
\* HystHorizon (not less than any dwell minimum used here).  util_init runs at
\* start-up and the poller calls
\* again after every tick, hence the fairness on the tick; ticks may be as close
\* as an external wakeup or a returned interval of 0 makes them.
HystHorizon == 12

HystConfigs == {GlobalConfig(TRUE, FALSE, 0, 0, 3, 3)}

\* Two readings that make an Idle candidate, two that make an Overload
\* candidate.
HystStats == {Stat(4000, 2500), Stat(4500, 2500), Stat(6100, 9000), Stat(6100, 10000)}

HystSteps == {2, 6}

InitHyst == InitUtil({<< >>}, HystConfigs, BOOLEAN)

Rebase(reading, shift) == IF reading > shift THEN reading - shift ELSE 0

TickHyst ==
    \E ps \in HystStats, dt \in HystSteps :
    \E shift \in {IF now + dt > HystHorizon THEN now + dt - HystHorizon ELSE 0} :
        periodic_util_update_at(-1, ps, -1, now + dt - shift,
                                Rebase(tp_last_in, shift), Rebase(tp_last_out, shift))

NextHyst == util_init \/ TickHyst

SpecHyst == InitHyst /\ [][NextHyst]_vars /\ WF_vars(NextHyst)

(***************************************************************************)
(* Properties                                                              *)
(***************************************************************************)
TickOps == {"tick_hint", "tick_profile"}

ActNames(calls) == {calls[k][1] : k \in 1..Len(calls)}

\* C1: on every tick of the matcher the state entered is the first entry, in
\* configuration order, whose state_match predicate holds for the readings and
\* the hint of that tick; no earlier entry matches, and when nothing is
\* selected no entry matches at all.
C1_FirstMatchEntered ==
    [][op' \in TickOps =>
          LET M(i) == state_match(config_states[i], i = current_state,
                                  busy_sys', busy_cpu', busy_gfx', wlt_arg')
          IN  /\ sel' \in 0..Len(config_states)
              /\ sel' # 0 => /\ M(sel')
                             /\ \A j \in 1..(sel' - 1) : ~M(j)
                             /\ current_state' = sel'
              /\ sel' = 0 => /\ \A j \in 1..Len(config_states) : ~M(j)
                             /\ current_state' = current_state]_vars

\* A tick selected an entry although a later entry of the list matched too.
C1_Witness ==
    /\ op \in TickOps
    /\ sel # 0
    /\ \E j \in (sel + 1)..Len(config_states) :
          state_match(config_states[j], FALSE, busy_sys, busy_cpu, busy_gfx, wlt_arg)

\* C2: in enter_state the actuators run and the active state changes if and
\* only if the matched state differs from the active one; when it is the active
\* one already, no actuator is called, the active state and the mode stay, and
\* of the list only the matched entry's entry_load_sys/entry_load_cpu change.
C2_ActuateIffStateChanges ==
    [][(op' \in TickOps /\ sel' # 0) =>
          IF sel' # current_state
          THEN /\ {"set_lpm_epp", "set_lpm_epb", "set_lpm_itmt", "set_lpm_irq",
                   "set_lpm_cpus", "process_lpm"} \subseteq ActNames(acts')
               /\ acts'[Len(acts')] = <<"process_lpm", "UTIL_ENTER">>
               /\ current_state' = sel'
          ELSE /\ acts' = << >>
               /\ current_state' = current_state
               /\ lpm' = lpm
               /\ config_states' =
                     [config_states EXCEPT ![sel'].entry_load_sys = busy_sys',
                                           ![sel'].entry_load_cpu = busy_cpu']]_vars

\* A tick matched the state that was active already and recorded a new load.
C2_Witness ==
    /\ op \in TickOps
    /\ sel # 0
    /\ sel = pre.current
    /\ acts = << >>
    /\ config_states[sel].entry_load_sys = busy_sys
    /\ busy_sys > config_states[sel].entry_system_load_thres

\* The checks of state_match other than the system-load one pass: the entry is
\* valid, its hint type agrees, and the cpu and gfx thresholds are not exceeded.
OthersPass(state, bcpu, bgfx, wlt_index) ==
    /\ state.valid
    /\ state.wlt_type = -1 \/ state.wlt_type = wlt_index
    /\ ~(state.enter_cpu_load_thres # 0 /\ bcpu > state.enter_cpu_load_thres)
    /\ ~(/\ state.enter_gfx_load_thres # 0
         /\ bgfx # -1
         /\ bgfx > state.enter_gfx_load_thres)

\* state_match gets as far as the system-load check: the other checks pass and
\* neither of the two early "return 1" shortcuts is taken.
SysCheckReached(state, bcpu, bgfx, wlt_index) ==
    /\ OthersPass(state, bcpu, bgfx, wlt_index)
    /\ ~(state.wlt_type # -1 /\ state.enter_gfx_load_thres = 0)
    /\ ~(/\ state.enter_cpu_load_thres = 0
         /\ state.entry_system_load_thres = 0
         /\ state.enter_gfx_load_thres = 0)

\* System loads (percent * 100) at which the matcher is probed.
ProbeLoads == {4500, 5500, 5800, 6100}

\* C3 as stated: with the other checks passing and T > 0, a reading above T
\* matches iff the state is the active one, H > 0, and the reading does not
\* exceed both L + H and T + H.
C3_StickyUnlessBothExceeded ==
    inited =>
      \A i \in 1..Len(config_states), b \in ProbeLoads :
        LET st == config_states[i]
            T == st.entry_system_load_thres
            H == st.exit_system_load_hyst
            L == st.entry_load_sys
        IN  (T > 0 /\ b > T /\ OthersPass(st, busy_cpu, busy_gfx, wlt_arg)) =>
               (state_match(st, i = current_state, b, busy_cpu, busy_gfx, wlt_arg)
                  <=> (i = current_state /\ H > 0 /\ ~(b > L + H /\ b > T + H)))

\* C3: when state_match reaches the system-load check of a state with T > 0, a
\* reading above T matches iff the state is the active one, H > 0, and the
\* reading exceeds neither L + H nor T + H.
C3_StickyWithinBothBounds ==
    inited =>
      \A i \in 1..Len(config_states), b \in ProbeLoads :
        LET st == config_states[i]
            T == st.entry_system_load_thres
            H == st.exit_system_load_hyst
            L == st.entry_load_sys
        IN  (T > 0 /\ b > T /\ SysCheckReached(st, busy_cpu, busy_gfx, wlt_arg)) =>
               (state_match(st, i = current_state, b, busy_cpu, busy_gfx, wlt_arg)
                  <=> (i = current_state /\ H > 0 /\ b <= L + H /\ b <= T + H))

\* The active state, entered below its threshold, is kept by a reading above T
\* within L + H but dropped by one within T + H that is beyond L + H.
C3_Witness ==
    /\ op \in TickOps
    /\ sel # 0
    /\ current_state = sel
    /\ LET st == config_states[sel]
           T == st.entry_system_load_thres
           H == st.exit_system_load_hyst
           L == st.entry_load_sys
       IN  /\ SysCheckReached(st, busy_cpu, busy_gfx, wlt_arg)
           /\ T > 0
           /\ H > 0
           /\ \E b \in ProbeLoads :
                 /\ b > T
                 /\ state_match(st, TRUE, b, busy_cpu, busy_gfx, wlt_arg)
           /\ \E b \in ProbeLoads :
                 /\ b > L + H
                 /\ b <= T + H
                 /\ ~state_match(st, TRUE, b, busy_cpu, busy_gfx, wlt_arg)

\* C4: no burst, from its rising edge to its falling edge, increments
\* burst_count more than once, for either value of the demote condition and
\* however many add_non_spike_time calls drain total_spike_time.
C4_BurstCountedOnce ==
    spike_op = "falling" => burst_incs <= 1

\* C5: a burst made of a single add_spike_time call, followed only by
\* add_non_spike_time calls down to spike rate 0, does not increment
\* burst_count.
C5_SingleSpikeNotCounted ==
    (spike_op = "falling" /\ burst_spikes = 1) => burst_incs = 0

HystEnabled == util_in_hyst # 0 \/ util_out_hyst # 0

\* C6 as stated: with hysteresis enabled, every Idle candidate folds cur_out
\* into avg_out and every Overload candidate folds cur_in into avg_in; a
\* rejected Idle candidate multiplies avg_in by 6/5 and makes it strictly
\* larger, a rejected Overload candidate does the same to avg_out.
C6_RejectionStrictlyInflates ==
    (op = "tick_simple" /\ HystEnabled) =>
       /\ sys_stat = SYS_IDLE =>
             /\ avg_out = (pre.avg_out * (DECAY_PERIOD - 1)) \div DECAY_PERIOD
                             + pre.cur_out \div DECAY_PERIOD
             /\ proceed = 0 =>
                   /\ avg_in = (pre.avg_in * (DECAY_PERIOD + 1)) \div DECAY_PERIOD
                   /\ avg_in > pre.avg_in
       /\ sys_stat = SYS_OVERLOAD =>
             /\ avg_in = (pre.avg_in * (DECAY_PERIOD - 1)) \div DECAY_PERIOD
                            + pre.cur_in \div DECAY_PERIOD
             /\ proceed = 0 =>
                   /\ avg_out = (pre.avg_out * (DECAY_PERIOD + 1)) \div DECAY_PERIOD
                   /\ avg_out > pre.avg_out

\* C6: with hysteresis enabled, every Idle candidate folds cur_out into avg_out
\* and every Overload candidate folds cur_in into avg_in (integer division); a
\* rejected Idle candidate sets avg_in to floor(avg_in * 6 / 5), which is never
\* smaller and is strictly larger exactly when avg_in >= 5; a rejected Overload
\* candidate does the same to avg_out; an accepted candidate leaves the average
\* of its own side alone.
C6_RejectionInflatesFromFive ==
    (op = "tick_simple" /\ HystEnabled) =>
       /\ sys_stat = SYS_IDLE =>
             /\ avg_out = (pre.avg_out * (DECAY_PERIOD - 1)) \div DECAY_PERIOD
                             + pre.cur_out \div DECAY_PERIOD
             /\ proceed = 0 =>
                   /\ avg_in = (pre.avg_in * (DECAY_PERIOD + 1)) \div DECAY_PERIOD
                   /\ avg_in >= pre.avg_in
                   /\ avg_in > pre.avg_in <=> pre.avg_in >= DECAY_PERIOD
             /\ proceed # 0 => avg_in = pre.avg_in
       /\ sys_stat = SYS_OVERLOAD =>
             /\ avg_in = (pre.avg_in * (DECAY_PERIOD - 1)) \div DECAY_PERIOD
                            + pre.cur_in \div DECAY_PERIOD
             /\ proceed = 0 =>
                   /\ avg_out = (pre.avg_out * (DECAY_PERIOD + 1)) \div DECAY_PERIOD
                   /\ avg_out >= pre.avg_out
                   /\ avg_out > pre.avg_out <=> pre.avg_out >= DECAY_PERIOD
             /\ proceed # 0 => avg_out = pre.avg_out

\* An Idle candidate was rejected and avg_in grew.
C6_Witness ==
    /\ op = "tick_simple"
    /\ HystEnabled
    /\ sys_stat = SYS_IDLE
    /\ proceed = 0
    /\ pre.avg_in >= DECAY_PERIOD
    /\ avg_in > pre.avg_in

\* util_should_proceed for a status, in the hysteresis state as it stands.
ProceedNow(status) ==
    util_should_proceed(status, [avg_in |-> avg_in, avg_out |-> avg_out],
                        util_in_hyst, util_out_hyst, util_in_min, util_out_min,
                        now - tp_last_in, now - tp_last_out)

\* C7 as stated: util_should_proceed returns 0 for Normal and Unknown in every
\* configuration of the hysteresis thresholds, both zero included.
C7_NeverProceedsForOtherStatus ==
    /\ initialized =>
          \A status \in {SYS_NORMAL, SYS_UNKNOWN} : ProceedNow(status).r = 0
    /\ (op = "tick_simple" /\ sys_stat \notin {SYS_IDLE, SYS_OVERLOAD}) => proceed = 0

\* C7: with hysteresis enabled (util_in_hyst or util_out_hyst non-zero)
\* util_should_proceed returns 0 for Normal and Unknown and leaves both averages
\* alone; with both thresholds zero it returns 1 for every status.  Either way a
\* tick classified Normal calls no actuator and leaves the mode alone.
C7_NoProceedWhenHystEnabled ==
    /\ initialized =>
          \A status \in {SYS_NORMAL, SYS_UNKNOWN} :
             LET u == ProceedNow(status)
             IN  IF HystEnabled
                 THEN u.r = 0 /\ u.avg_in = avg_in /\ u.avg_out = avg_out
                 ELSE /\ u.r = 1
                      /\ ProceedNow(SYS_IDLE).r = 1
                      /\ ProceedNow(SYS_OVERLOAD).r = 1
    /\ (op = "tick_simple" /\ sys_stat \notin {SYS_IDLE, SYS_OVERLOAD}) =>
          /\ proceed = IF HystEnabled THEN 0 ELSE 1
          /\ acts = << >>
          /\ lpm = pre.lpm

\* A tick past the cold start classified Normal with hysteresis enabled.
C7_Witness ==
    /\ op = "tick_simple"
    /\ HystEnabled
    /\ pre.first_run = 0
    /\ sys_stat = SYS_NORMAL
    /\ proceed = 0

\* C8: the first tick of the simple classifier path classifies Normal and
\* performs no low-power enter or exit, whatever the readings, the thresholds
\* and the mode.
C8_ColdStartIsNormal ==
    (op = "tick_simple" /\ ~pre.initialized) =>
       /\ sys_stat = SYS_NORMAL
       /\ acts = << >>
       /\ lpm = pre.lpm

\* The first simple tick saw readings the raw thresholds classify Idle or
\* Overload.
C8_Witness ==
    /\ op = "tick_simple"
    /\ ~pre.initialized
    /\ busy_sys >= 0
    /\ \/ ~pre.lpm /\ busy_sys <= cfg.util_entry_threshold * 100
       \/ pre.lpm /\ busy_cpu > cfg.util_exit_threshold * 100

\* C9 as stated: the interval of a state that stays active in adaptive mode
\* lies in [min_poll_interval, max_poll_interval] and is a multiple of 100.
C9_AdaptiveIntervalMultipleOf100 ==
    (/\ op \in TickOps
     /\ sel # 0
     /\ sel = pre.current
     /\ config_states[sel].poll_interval_increment = -1
     /\ config_states[sel].min_poll_interval <= config_states[sel].max_poll_interval) =>
       /\ interval >= config_states[sel].min_poll_interval
       /\ interval <= config_states[sel].max_poll_interval
       /\ interval % 100 = 0

\* C9: the interval of a state that stays active in adaptive mode lies in
\* [min_poll_interval, max_poll_interval]; it is a multiple of 100 whenever
\* both bounds are, and otherwise is a multiple of 100 or one of the bounds.
C9_AdaptiveIntervalClamped ==
    (/\ op \in TickOps
     /\ sel # 0
     /\ sel = pre.current
     /\ config_states[sel].poll_interval_increment = -1
     /\ config_states[sel].min_poll_interval <= config_states[sel].max_poll_interval) =>
       /\ interval >= config_states[sel].min_poll_interval
       /\ interval <= config_states[sel].max_poll_interval
       /\ \/ interval % 100 = 0
          \/ interval = config_states[sel].min_poll_interval
          \/ interval = config_states[sel].max_poll_interval
       /\ (/\ config_states[sel].min_poll_interval % 100 = 0
           /\ config_states[sel].max_poll_interval % 100 = 0) => interval % 100 = 0

\* The adaptive value fell below min_poll_interval and was clamped up to it.
C9_Witness ==
    /\ op \in TickOps
    /\ sel # 0
    /\ sel = pre.current
    /\ config_states[sel].poll_interval_increment = -1
    /\ busy_cpu = 10000
    /\ config_states[sel].min_poll_interval > 0
    /\ interval = config_states[sel].min_poll_interval

\* C10: the interval get_util_interval computed on a simple tick is a positive
\* multiple of 100, and it is 1000 in low-power mode with no fixed exit
\* interval and busy_cpu unavailable.
C10_IntervalPositiveMultipleOf100 ==
    op = "tick_simple" =>
       LET v == get_util_interval(pre.lpm, cfg.util_exit_interval,
                                  cfg.util_entry_interval, busy_cpu, pre.first_run)
       IN  /\ v > 0
           /\ v % 100 = 0
           /\ (pre.lpm /\ cfg.util_exit_interval = 0 /\ busy_cpu < 0) => v = 1000

\* C11 as stated: the k-th of a run of strikeout_once(n) calls with n > 0
\* returns max(n - (k - 1), 0), so that after reaching 0 it stays at 0.
C11_CountdownHoldsAtZero ==
    (strike_calls >= 1 /\ strike_uniform /\ strike_n > 0) =>
       strike_ret = (IF strike_n - (strike_calls - 1) > 0
                     THEN strike_n - (strike_calls - 1) ELSE 0)

\* C11: the k-th of a run of strikeout_once(n) calls with n > 0 returns
\* n - ((k - 1) mod (n + 1)): it counts n, n-1, .., 1, 0 and the call after the 0
\* seeds the countdown at n again.  The value returned is the strike_count left.
C11_CountdownStartsOver ==
    /\ strike_calls >= 1 => strike_ret = strike_count
    /\ (strike_calls >= 1 /\ strike_uniform /\ strike_n > 0) =>
          strike_ret = strike_n - ((strike_calls - 1) % (strike_n + 1))

\* A countdown ran down to 0 and the next call seeded it again.
C11_Witness ==
    /\ strike_uniform
    /\ strike_n > 0
    /\ strike_calls = strike_n + 2
    /\ strike_ret = strike_n

MaxOf(S) ==
    IF S = {} THEN 0
    ELSE LET x == CHOOSE y \in S : \A z \in S : z <= y
         IN  x

\* C12: after parse_proc_stat, busy_cpu is the largest calculate_busypct over
\* the per-CPU slots (CPU 0 included, the system slot excluded) that are valid
\* this round, and 0 when there is none.
C12_BusyCpuIsMaxOverCpus ==
    op = "parse_proc_stat" =>
       busy_cpu = MaxOf({0} \cup
                        {calculate_busypct(proc_stat_cur[i], proc_stat_prev[i]) :
                           i \in {j \in 0..(get_max_online_cpu - 1) :
                                     proc_stat_cur[j].valid = 1}})

\* C13: calculate_busypct is 0 for every pair of generations of a slot whose
\* total counter delta is zero or in which a counter went back.
C13_DegeneratePairsAreZero ==
    \A i \in 0..get_max_online_cpu :
       LET cur  == proc_stat_cur[i]
           prev == proc_stat_prev[i]
       IN  (\/ (cur.busy - prev.busy) + (cur.idle - prev.idle) = 0
            \/ cur.busy < prev.busy
            \/ cur.idle < prev.idle) => calculate_busypct(cur, prev) = 0

AnyTick == {"tick_hint", "tick_disabled", "tick_simple", "tick_profile"}

\* C14: a reading of -1 is treated as "skip this threshold check": state_match
\* decides as it would on a reading that passes the check, for each of
\* busy_sys, busy_cpu and busy_gfx, and the simple classifier yields neither
\* Idle on an unavailable busy_sys nor Overload on an unavailable busy_cpu.
C14_UnavailableSkipsCheck ==
    /\ inited =>
          \A i \in 1..Len(config_states) :
             LET st == config_states[i]
                 M(bs, bc, bg) == state_match(st, i = current_state, bs, bc, bg, wlt_arg)
             IN  /\ M(busy_sys, busy_cpu, -1) = M(busy_sys, busy_cpu, 0)
                 /\ M(busy_sys, -1, busy_gfx) = M(busy_sys, 0, busy_gfx)
                 /\ M(-1, busy_cpu, busy_gfx) = M(0, busy_cpu, busy_gfx)
    /\ (op = "tick_simple" /\ busy_sys = -1) => sys_stat # SYS_IDLE
    /\ (op = "tick_simple" /\ busy_cpu = -1) => sys_stat # SYS_OVERLOAD

\* C15: once util_init has found fewer than two valid profiles, no tick runs
\* the matcher, no config state becomes active and no profile actuator is
\* called.
C15_NoMatcherWithoutProfiles ==
    (inited /\ use_config_state = 0) =>
       /\ op \notin TickOps
       /\ sel = 0
       /\ current_state = 0
       /\ ActNames(acts) \subseteq {"process_lpm"}

\* C16 as stated: a tick without hint and with monitoring enabled takes the
\* simple classifier path and does not run the matcher, whatever the number of
\* configured states; with monitoring disabled it returns -1.
C16_NoHintIsSimplePath ==
    (op \in AnyTick /\ wlt_arg < 0) =>
       IF cfg.has_util_monitor
       THEN op = "tick_simple" /\ proceed # -1 /\ sel = 0
       ELSE ret = -1

\* C16: a tick without hint and with monitoring enabled takes the simple
\* classifier path exactly when no state is configured or util_init found
\* fewer than two valid profiles; otherwise it runs the matcher with hint -1 and
\* does not call the classifier.  With monitoring disabled it returns -1 and
\* does neither.
C16_NoHintPathByProfiles ==
    (op \in AnyTick /\ wlt_arg < 0) =>
       IF ~cfg.has_util_monitor
       THEN ret = -1 /\ op = "tick_disabled" /\ proceed = -1 /\ sel = 0 /\ acts = << >>
       ELSE IF Cardinality({i \in 1..Len(config_states) : config_states[i].valid}) < 2
       THEN op = "tick_simple" /\ proceed # -1 /\ sel = 0
       ELSE op = "tick_profile" /\ proceed = -1

\* A tick without hint ran the matcher and it selected a state.
C16_Witness ==
    /\ op = "tick_profile"
    /\ wlt_arg < 0
    /\ cfg.has_util_monitor
    /\ sel # 0
    /\ current_state = sel

\* C17 as stated: the tracked spike time always lies between 0 and
\* MAX_TRACKED_SPIKE_TIME, whatever durations are reported.
C17_SpikeTimeWithinCap ==
    total_spike_time >= 0 /\ total_spike_time <= MAX_TRACKED_SPIKE_TIME

\* C17: the tracked spike time is never negative and stops growing once it has
\* reached MAX_TRACKED_SPIKE_TIME, so it stays below the cap plus one reported
\* duration; the spike rate derived from it always lies between 0 and 100.
C17_SpikeTimeStopsAtCap ==
    /\ total_spike_time >= 0
    /\ \E d \in SpikeDurations : total_spike_time < MAX_TRACKED_SPIKE_TIME + d
    /\ get_spike_rate(total_spike_time) \in 0..100

C17_Witness ==
    /\ spike_op \in {"rising", "spike"}
    /\ total_spike_time > MAX_TRACKED_SPIKE_TIME
    /\ get_spike_rate(total_spike_time) = 100

\* C18 as stated: burst_count never exceeds MAX_BURST_COUNT.
C18_BurstCountWithinCap == burst_count <= MAX_BURST_COUNT

\* C18: after an add_non_spike_time that is not a falling edge, burst_count is
\* at most MAX_BURST_COUNT: a count above the cap is cleared by the first
\* update_burst_count that does not count a burst.
C18_BurstCountClearedAboveCap ==
    spike_op = "non_spike" => burst_count <= MAX_BURST_COUNT

\* A clear that only saturation can have caused: every step so far was one
\* second, far less than bc_reset_min.
C18_Witness ==
    /\ spike_op = "non_spike"
    /\ burst_count = 0
    /\ burst_incs >= 1
    /\ spike_sec_prev = now_sec
    /\ now_sec < 3 * MAX_BURST_COUNT + 15

\* C20: at every falling edge the new bc_reset_min is non-decreasing in the
\* burst average, not longer than the window before for an average below 100,
\* half the window before at average 0 and the window before at average 100.
C20_RetuneShortensByRate ==
    (spike_op = "falling" /\ ncalls > 0) =>
        /\ bc_reset_min = bc_reset_retune(retune.avg, retune.b)
        /\ \A a \in 0..99 :
               bc_reset_retune(a, retune.b) <= bc_reset_retune(a + 1, retune.b)
        /\ retune.avg < 100 => bc_reset_min <= retune.b
        /\ retune.avg = 0 => 2 * bc_reset_min = retune.b
        /\ retune.avg = 100 => bc_reset_min = retune.b

\* C19: a GPU sample whose utilization quotient has elapsed time 0 (time_ms on
\* the sysfs path, the timestamp-counter difference on the MSR path) reports 0
\* or -1, and no division by zero is evaluated.
C19_ZeroElapsedIsDefined ==
    (gfx_op \in {"sysfs", "msr"} /\ gfx_elapsed = 0) =>
        busy_gfx \in {0, -1} /\ ~gfx_fault

\* C24: the in-burst flag is set exactly when at least one spike-rate sample
\* has been taken, so the burst average of a falling edge has a non-zero
\* divisor; and bc_reset_min is strictly positive, so the window ratio of
\* update_burst_count has a non-zero divisor.
C24_DivisorsNeverZero ==
    /\ spike_burst_flag <=> spike_rate_samples >= 1
    /\ spike_burst_flag => spike_rate_samples = burst_spikes
    /\ bc_reset_min > 0

\* A falling edge that averaged several samples and set a new, shorter window.
C24_Witness ==
    /\ spike_op = "falling"
    /\ burst_spikes >= 2
    /\ spike_rate_samples = 0
    /\ ~spike_burst_flag
    /\ bc_reset_min = bc_reset_retune(retune.avg, retune.b)
    /\ bc_reset_min < retune.b

\* C22 as stated: a profile-mode tick on which no state matches keeps the
\* active state, calls no actuator and returns -1; a tick on which a state
\* matches returns the interval enter_state computed for it.
C22_ReturnsEnterStateInterval ==
    op \in TickOps =>
        IF sel = 0
        THEN current_state = pre.current /\ acts = << >> /\ ret = -1
        ELSE ret = interval

\* C22: a profile-mode tick on which no state matches keeps the active state,
\* calls no actuator and returns -1; a tick on which a state matches returns
\* the interval enter_state computed for it, except that a tick with a workload
\* hint returns -1 when wlt_hint_poll_enable is off.
C22_ReturnsIntervalUnlessHintPollOff ==
    op \in TickOps =>
        IF sel = 0
        THEN current_state = pre.current /\ acts = << >> /\ ret = -1
        ELSE ret = IF wlt_arg >= 0 /\ ~cfg.wlt_hint_poll_enable THEN -1 ELSE interval

\* A state is active and the tick matches none; the interval is left alone.
C22_Witness ==
    /\ op \in TickOps
    /\ sel = 0
    /\ pre.current # 0
    /\ current_state = pre.current
    /\ ret = -1
    /\ interval > 0

\* C21: in simple classifier mode process_lpm(UTIL_ENTER) is issued only out of
\* low-power mode and process_lpm(UTIL_EXIT) only in it, so the two alternate;
\* every transition re-arms first_run, and a tick that finds first_run armed is
\* classified Normal and makes no transition, so no two consecutive ticks both
\* make a transition.  A tick with a workload hint in between changes nothing.
C21_Tick ==
    /\ (now' # now /\ op' = "tick_simple") =>
           /\ Len(acts') <= 1
           /\ \A k \in 1..Len(acts') :
                  /\ acts'[k][1] = "process_lpm"
                  /\ acts'[k][2] = "UTIL_ENTER" => ~lpm /\ lpm'
                  /\ acts'[k][2] = "UTIL_EXIT" => lpm /\ ~lpm'
           /\ acts' = << >> => lpm' = lpm
           /\ (acts' # << >>) <=> (first_run' = 1)
           /\ first_run = 1 => sys_stat' = SYS_NORMAL /\ acts' = << >>
           /\ (op = "tick_simple" /\ acts # << >>) => acts' = << >>
    /\ (now' # now /\ op' = "tick_hint") =>
           acts' = << >> /\ lpm' = lpm /\ first_run' = first_run

C21_TransitionsAlternate == [][C21_Tick]_vars

\* The tick after a transition into low-power mode, over the exit threshold:
\* it is classified Normal and stays in low-power mode.
C21_Witness ==
    /\ op = "tick_simple"
    /\ pre.initialized
    /\ pre.first_run = 1
    /\ pre.lpm
    /\ busy_cpu > cfg.util_exit_threshold * 100
    /\ sys_stat = SYS_NORMAL
    /\ acts = << >>
    /\ lpm

\* C23: the hysteresis filter never locks a transition out forever: as ticks
\* keep coming and time keeps advancing, it does not happen that from some tick
\* on every tick is an Idle candidate (or every tick an Overload candidate)
\* that util_should_proceed rejects.
C23_RejectedCandidate ==
    /\ op' = "tick_simple"
    /\ sys_stat' \in {SYS_IDLE, SYS_OVERLOAD}
    /\ proceed' = 0

C23_NoLockoutForever == []<><<~C23_RejectedCandidate>>_vars

====
